---------------------------- MODULE Spec2Model ----------------------------
(***************************************************************************)
(* Model of converting-dice (src/lib.js, src/index.js): the search for the *)
(* best rule that simulates a die of dieB.length faces with throws of a    *)
(* die of dieA.length faces.                                               *)
(*                                                                         *)
(* A Die is a sequence of face labels.  A TossRange is a record            *)
(* [faces, ids] of two parallel sequences.  A ConversionRule is a record   *)
(* [dieA, dieB, makeFair, throws, conversions, expectation] whose          *)
(* conversions is the insertion-ordered Map as a sequence of               *)
(* [range, sub] entries; sub is tagged: "terminal" (a face label),         *)
(* "repeat" (the rule itself, lib.js:102) or "reduce" (a sub rule).        *)
(*                                                                         *)
(* JavaScript numbers that hold quotients are modelled as exact fractions  *)
(* [num, den] with den >= 0: den = 0 with num > 0 is Infinity and 0/0 is   *)
(* NaN, the values an IEEE division by zero produces.                      *)
(***************************************************************************)
EXTENDS Integers, Sequences, FiniteSets, TLC

(***************************************************************************)
(* Bounds of the model.                                                    *)
(***************************************************************************)
\* Largest number of faces of the source die dieA.
MaxA == 6
\* Largest number of faces of the target die dieB.
MaxB == 5
\* Calls with makeFair = TRUE are explored for dieA.length + dieB.length
\* up to this size (their enumerations grow as dieA.length ^ dieB.length).
MaxFairSize == 7
\* Cap of the throws counter: no loop iteration raises throws beyond it.
MaxThrows == 7
\* Cap of one enumeration: rounds of more tosses than this are not built.
MaxTosses == 256

(***************************************************************************)
(* JavaScript numbers.                                                     *)
(***************************************************************************)
RECURSIVE Gcd(_, _)
Gcd(a, b) == IF b = 0 THEN a ELSE Gcd(b, a % b)

\* The number num / den, in lowest terms.
Frac(num, den) ==
    IF den = 0
    THEN [num |-> IF num > 0 THEN 1 ELSE 0, den |-> 0]
    ELSE LET g == Gcd(num, den) IN [num |-> num \div g, den |-> den \div g]

Num(n) == [num |-> n, den |-> 1]
Infinity == [num |-> 1, den |-> 0]
NaN == [num |-> 0, den |-> 0]

IsFinite(x) == x.den > 0
IsNaN(x) == x.den = 0 /\ x.num = 0

\* x + y
NumAdd(x, y) ==
    IF IsNaN(x) \/ IsNaN(y) THEN NaN
    ELSE IF ~IsFinite(x) \/ ~IsFinite(y) THEN Infinity
    ELSE Frac(x.num * y.den + y.num * x.den, x.den * y.den)

\* x * y (no operand is negative)
NumMul(x, y) ==
    IF IsNaN(x) \/ IsNaN(y) THEN NaN
    ELSE IF ~IsFinite(x) THEN (IF y.num = 0 THEN NaN ELSE Infinity)
    ELSE IF ~IsFinite(y) THEN (IF x.num = 0 THEN NaN ELSE Infinity)
    ELSE Frac(x.num * y.num, x.den * y.den)

\* x / y (no operand is negative)
NumDiv(x, y) ==
    IF IsNaN(x) \/ IsNaN(y) THEN NaN
    ELSE IF ~IsFinite(x) THEN (IF IsFinite(y) THEN Infinity ELSE NaN)
    ELSE IF ~IsFinite(y) THEN Num(0)
    ELSE Frac(x.num * y.den, x.den * y.num)

\* x < y: false as soon as an operand is NaN
NumLess(x, y) ==
    IF IsNaN(x) \/ IsNaN(y) THEN FALSE
    ELSE IF ~IsFinite(x) THEN FALSE
    ELSE IF ~IsFinite(y) THEN TRUE
    ELSE x.num * y.den < y.num * x.den

\* x >= y: false as soon as an operand is NaN
NumGeq(x, y) ==
    IF IsNaN(x) \/ IsNaN(y) THEN FALSE
    ELSE IF ~IsFinite(x) THEN TRUE
    ELSE IF ~IsFinite(y) THEN FALSE
    ELSE x.num * y.den >= y.num * x.den

\* Math.pow(base, exp) for integers base >= 0, exp >= 0
RECURSIVE Pow(_, _)
Pow(base, exp) == IF exp = 0 THEN 1 ELSE base * Pow(base, exp - 1)

(***************************************************************************)
(* createDie (lib.js:381-391)                                              *)
(***************************************************************************)
Digit == <<"1", "2", "3", "4", "5", "6", "7", "8", "9">>

createDie(n) ==
    IF n = 2 THEN <<"H", "T">> ELSE [i \in 1..n |-> Digit[i]]

(***************************************************************************)
(* getDivisors (lib.js:251-259): the divisors of n in descending order.    *)
(***************************************************************************)
RECURSIVE DivisorsFrom(_, _)
DivisorsFrom(n, i) ==
    IF i < 1 THEN <<>>
    ELSE IF n % i = 0 THEN <<i>> \o DivisorsFrom(n, i - 1)
    ELSE DivisorsFrom(n, i - 1)

\* Only the divisors n and 1: an allocation that knows no reduction
getDivisorsTrivial(n) == IF n > 1 THEN <<n, 1>> ELSE DivisorsFrom(n, n)

\* The divisors below n: a loop that starts one too low
getDivisorsProper(n) == DivisorsFrom(n, n - 1)

getDivisors(n) == DivisorsFrom(n, n)

(***************************************************************************)
(* generateTosses (lib.js:127-171)                                         *)
(***************************************************************************)
\* tossFacesArray.slice().sort() (lib.js:144): the digits of a toss in
\* ascending order.  The labels of a die are in ascending string order, so
\* sorting the face indices sorts the faces; the key is only compared for
\* equality.
RECURSIVE InsertSorted(_, _)
InsertSorted(s, d) ==
    IF s = <<>> THEN <<d>>
    ELSE IF d <= Head(s) THEN <<d>> \o s
    ELSE <<Head(s)>> \o InsertSorted(Tail(s), d)

RECURSIVE SortDigits(_)
SortDigits(digits) ==
    IF digits = <<>> THEN <<>>
    ELSE InsertSorted(SortDigits(Tail(digits)), Head(digits))

\* new Array(throws).fill(0) (lib.js:130)
RECURSIVE Zeros(_)
Zeros(throws) == IF throws = 0 THEN <<>> ELSE Append(Zeros(throws - 1), 0)

\* A key that does not depend on the faces even when the die may be unfair
chanceKeyConstant(idDigits, assumeUnfair) == <<>>

\* chanceKey (lib.js:144)
chanceKey(idDigits, assumeUnfair) ==
    IF assumeUnfair THEN SortDigits(idDigits) ELSE <<>>

\* The carry loop (lib.js:159-167), digit positions 1..throws.  A carry out
\* of the first digit writes the property -1 of the array, which no later
\* read uses.
RECURSIVE Carry(_, _, _)
Carry(idDigits, j, n) ==
    IF j < 1 THEN idDigits
    ELSE IF idDigits[j] < n THEN idDigits
    ELSE LET lowered == [idDigits EXCEPT ![j] = @ - n]
         IN  IF j = 1 THEN lowered
             ELSE Carry([lowered EXCEPT ![j - 1] = @ + 1], j - 1, n)

\* Move to next toss (lib.js:158-167)
NextDigits(idDigits, throws, n) ==
    IF throws = 0 THEN idDigits
    ELSE Carry([idDigits EXCEPT ![throws] = @ + 1], throws, n)

\* Position of chanceKey in byChance, 0 when absent (Map.get, lib.js:147)
KeyIndex(byChance, key) ==
    LET hits == {i \in 1..Len(byChance) : byChance[i].key = key}
    IN  IF hits = {} THEN 0 ELSE CHOOSE i \in hits : TRUE

\* Add toss (lib.js:147-155)
AddToss(byChance, key, tossFacesArray, id) ==
    LET at == KeyIndex(byChance, key)
    IN  IF at = 0
        THEN Append(byChance, [key |-> key, faces |-> <<tossFacesArray>>, ids |-> <<id>>])
        ELSE [byChance EXCEPT ![at].faces = Append(@, tossFacesArray),
                              ![at].ids = Append(@, id)]

\* One iteration of the loop over all tosses (lib.js:139-168): the state of
\* the loop is [idDigits, byChance].
TossStep(faces, assumeUnfair, throws, id, loop) ==
    LET tossFacesArray == [p \in 1..throws |-> faces[loop.idDigits[p] + 1]]
        key == chanceKey(loop.idDigits, assumeUnfair)
    IN  [idDigits |-> NextDigits(loop.idDigits, throws, Len(faces)),
         byChance |-> AddToss(loop.byChance, key, tossFacesArray, id)]

\* The iterations id = lo .. hi - 1 of the loop, in ascending order of id.
\* The range is split in halves, the first half evaluated before the second
\* is entered, only to keep the evaluation shallow.
RECURSIVE GenerateRange(_, _, _, _, _, _)
GenerateRange(faces, assumeUnfair, throws, lo, hi, loop) ==
    IF lo >= hi THEN loop
    ELSE IF hi = lo + 1 THEN TossStep(faces, assumeUnfair, throws, lo, loop)
    ELSE LET first == GenerateRange(faces, assumeUnfair, throws,
                                    lo, (lo + hi) \div 2, loop)
         IN  IF Len(first.idDigits) = throws
             THEN GenerateRange(faces, assumeUnfair, throws,
                                (lo + hi) \div 2, hi, first)
             ELSE first

\* Array.from(byChance.values()) (lib.js:170): the classes in insertion order
generateTosses(faces, assumeUnfair, throws) ==
    LET total == Pow(Len(faces), throws)
        done == GenerateRange(faces, assumeUnfair, throws, 0, total,
                    [idDigits |-> Zeros(throws), byChance |-> <<>>])
    IN  [c \in 1..Len(done.byChance) |->
            [faces |-> done.byChance[c].faces, ids |-> done.byChance[c].ids]]

(***************************************************************************)
(* partitionTosses (lib.js:179-244)                                        *)
(***************************************************************************)
\* die.slice(i * subLength, (i + 1) * subLength) (lib.js:190), i from 0
SubDie(die, subLength, i) == SubSeq(die, i * subLength + 1, (i + 1) * subLength)

\* An allocation in which sub range i starts at member i, not at member i * k
AllocateOverlapping(subRanges, uniformRange, divisor, k) ==
    [i \in 1..divisor |->
        [faces |-> subRanges[i].faces
                   \o SubSeq(uniformRange.faces, i, i + k - 1),
         ids |-> subRanges[i].ids
                 \o SubSeq(uniformRange.ids, i, i + k - 1)]]

\* Allocate them (lib.js:207-212): sub range i (from 0) receives the members
\* i * k .. i * k + k - 1 of uniformRange, in that order.
Allocate(subRanges, uniformRange, divisor, k) ==
    [i \in 1..divisor |->
        [faces |-> subRanges[i].faces
                   \o SubSeq(uniformRange.faces, (i - 1) * k + 1, i * k),
         ids |-> subRanges[i].ids
                 \o SubSeq(uniformRange.ids, (i - 1) * k + 1, i * k)]]

\* A splice that leaves the last allocated member in its class
DropFirstButOne(s, n) == SubSeq(s, n, Len(s))

\* splice(0, n) (lib.js:220-221)
DropFirst(s, n) == SubSeq(s, n + 1, Len(s))

\* tosses.splice(i, 1) (lib.js:217), i from 1
RemoveAt(s, i) == SubSeq(s, 1, i - 1) \o SubSeq(s, i + 1, Len(s))

\* The loop over the classes for one divisor (lib.js:197-223), i from 1;
\* alloc is [tosses, subRanges].
RECURSIVE AllocateFrom(_, _, _)
AllocateFrom(alloc, i, divisor) ==
    IF i > Len(alloc.tosses) THEN alloc
    ELSE LET uniformRange == alloc.tosses[i]
             k == Len(uniformRange.faces) \div divisor
             n == divisor * k
         IN  IF k = 0 THEN AllocateFrom(alloc, i + 1, divisor)
             ELSE IF Len(uniformRange.faces) = n
             THEN AllocateFrom(
                      [tosses |-> RemoveAt(alloc.tosses, i),
                       subRanges |-> Allocate(alloc.subRanges, uniformRange, divisor, k)],
                      i, divisor)
             ELSE AllocateFrom(
                      [tosses |-> [alloc.tosses EXCEPT
                                      ![i] = [faces |-> DropFirst(uniformRange.faces, n),
                                              ids |-> DropFirst(uniformRange.ids, n)]],
                       subRanges |-> Allocate(alloc.subRanges, uniformRange, divisor, k)],
                      i + 1, divisor)

\* Sort by id (lib.js:230-233)
ById(a, b) == a.id < b.id

SortById(subRange) ==
    LET toss == SortSeq([j \in 1..Len(subRange.faces) |->
                            [face |-> subRange.faces[j], id |-> subRange.ids[j]]],
                        ById)
    IN  [faces |-> [j \in 1..Len(toss) |-> toss[j].face],
         ids |-> [j \in 1..Len(toss) |-> toss[j].id]]

\* Add to result (lib.js:226-240), i from 1
RECURSIVE AddToResult(_, _, _, _, _)
AddToResult(result, subRanges, die, subLength, i) ==
    IF i > Len(subRanges) THEN result
    ELSE IF Len(subRanges[i].faces) > 0
    THEN AddToResult(Append(result, [range |-> SortById(subRanges[i]),
                                     subDie |-> SubDie(die, subLength, i - 1)]),
                     subRanges, die, subLength, i + 1)
    ELSE AddToResult(result, subRanges, die, subLength, i + 1)

\* The loop over the divisors (lib.js:183-241), d from 1; part is
\* [tosses, result].
RECURSIVE PartitionFrom(_, _, _, _)
PartitionFrom(part, die, divisors, d) ==
    IF d > Len(divisors) THEN part
    ELSE LET divisor == divisors[d]
             subLength == Len(die) \div divisor
             alloc == AllocateFrom(
                          [tosses |-> part.tosses,
                           subRanges |-> [i \in 1..divisor |-> [faces |-> <<>>, ids |-> <<>>]]],
                          1, divisor)
         IN  PartitionFrom(
                 [tosses |-> alloc.tosses,
                  result |-> AddToResult(part.result, alloc.subRanges, die, subLength, 1)],
                 die, divisors, d + 1)

partitionTosses(tosses, die) ==
    PartitionFrom([tosses |-> tosses, result |-> <<>>], die,
                  getDivisors(Len(die)), 1).result

(***************************************************************************)
(* getConversion (lib.js:79-118) and getBestConversion (lib.js:39-67)      *)
(***************************************************************************)
\* A round is built only within the bounds of the model.
WithinBounds(dieA, throws) ==
    throws <= MaxThrows /\ Pow(Len(dieA), throws) <= MaxTosses

\* Minimum number of toss (lib.js:45-48); loop is [throws, totalAFaces].
RECURSIVE MinThrowsFrom(_, _, _)
MinThrowsFrom(aFaces, bFaces, loop) ==
    IF loop.totalAFaces < bFaces /\ loop.throws < MaxThrows
    THEN MinThrowsFrom(aFaces, bFaces,
                       [throws |-> loop.throws + 1,
                        totalAFaces |-> loop.totalAFaces * aFaces])
    ELSE loop

\* !best || conversion.expectation < best.expectation (lib.js:54); best is
\* <<>> for null and <<rule>> otherwise.
Improves(conversion, best) ==
    best = <<>> \/ NumLess(conversion.expectation, best[1].expectation)

\* The comparison with its operands exchanged
SearchStopsSwapped(throws, best) == NumGeq(best[1].expectation, Num(throws + 1))

\* A break one round early
SearchStopsEarly(throws, best) == NumGeq(Num(throws + 2), best[1].expectation)

\* throws + 1 >= best.expectation (lib.js:59)
SearchStops(throws, best) == NumGeq(Num(throws + 1), best[1].expectation)

\* An expectation that leaves out the rounds that are repeated
ExpectationOfOneRound(sizeA, z, sizeB, throws) == z

\* (sizeA * z + sizeB * throws) / (sizeA - sizeB) (lib.js:115)
Expectation(sizeA, z, sizeB, throws) ==
    NumDiv(NumAdd(NumMul(Num(sizeA), z), Num(sizeB * throws)),
           Num(sizeA - sizeB))

RECURSIVE getConversion(_, _, _, _)

\* The search loop (lib.js:52-64) from the given throws on.  The result is
\* [best, throws, stopped]; stopped is FALSE when the bounds of the model
\* end the loop before its break.
RECURSIVE SearchFrom(_, _, _, _, _)
SearchFrom(dieA, dieB, makeFair, throws, best) ==
    IF ~WithinBounds(dieA, throws)
    THEN [best |-> best, throws |-> throws, stopped |-> FALSE]
    ELSE LET conversion == getConversion(dieA, dieB, makeFair, throws)
             kept == IF Improves(conversion, best) THEN <<conversion>> ELSE best
         IN  IF SearchStops(throws, kept)
             THEN [best |-> kept, throws |-> throws, stopped |-> TRUE]
             ELSE SearchFrom(dieA, dieB, makeFair, throws + 1, kept)

\* The whole of getBestConversion, as [best, throws, stopped]
BestSearch(dieA, dieB, makeFair) ==
    LET start == MinThrowsFrom(Len(dieA), Len(dieB),
                               [throws |-> 1, totalAFaces |-> Len(dieA)])
    IN  IF start.totalAFaces < Len(dieB)
        THEN [best |-> <<>>, throws |-> start.throws, stopped |-> FALSE]
        ELSE SearchFrom(dieA, dieB, makeFair, start.throws, <<>>)

\* The rule getBestConversion returns
getBestConversion(dieA, dieB, makeFair) == BestSearch(dieA, dieB, makeFair).best[1]

\* One entry of the loop over the Map (lib.js:97-113); acc is
\* [z, sizeB, conversions].
ConvertEntry(dieA, dieB, makeFair, throws, sizeA, entry, acc) ==
    LET size == Len(entry.range.faces)
    IN  IF Len(entry.subDie) = Len(dieB)
        THEN [z |-> acc.z,
              sizeB |-> size,
              conversions |-> Append(acc.conversions,
                  [range |-> entry.range, sub |-> [kind |-> "repeat"]])]
        ELSE IF Len(entry.subDie) = 1
        THEN [z |-> NumAdd(acc.z, NumMul(Frac(size, sizeA), Num(throws))),
              sizeB |-> acc.sizeB,
              conversions |-> Append(acc.conversions,
                  [range |-> entry.range,
                   sub |-> [kind |-> "terminal", face |-> entry.subDie[1]]])]
        ELSE LET subConversion == getBestConversion(dieA, entry.subDie, makeFair)
             IN  [z |-> NumAdd(acc.z,
                               NumMul(Frac(size, sizeA),
                                      NumAdd(Num(throws), subConversion.expectation))),
                  sizeB |-> acc.sizeB,
                  conversions |-> Append(acc.conversions,
                      [range |-> entry.range,
                       sub |-> [kind |-> "reduce", rule |-> subConversion]])]

RECURSIVE ConvertFrom(_, _, _, _, _, _, _, _)
ConvertFrom(dieA, dieB, makeFair, throws, sizeA, partition, e, acc) ==
    IF e > Len(partition) THEN acc
    ELSE ConvertFrom(dieA, dieB, makeFair, throws, sizeA, partition, e + 1,
                     ConvertEntry(dieA, dieB, makeFair, throws, sizeA,
                                  partition[e], acc))

getConversion(dieA, dieB, makeFair, throws) ==
    LET partition == partitionTosses(generateTosses(dieA, makeFair, throws), dieB)
        sizeA == Pow(Len(dieA), throws)
        acc == ConvertFrom(dieA, dieB, makeFair, throws, sizeA, partition, 1,
                           [z |-> Num(0), sizeB |-> 0, conversions |-> <<>>])
    IN  [dieA |-> dieA,
         dieB |-> dieB,
         makeFair |-> makeFair,
         throws |-> throws,
         conversions |-> acc.conversions,
         expectation |-> Expectation(sizeA, acc.z, acc.sizeB, throws)]

(***************************************************************************)
(* The state: one call, of update (index.js:22-28), which calls            *)
(* getBestConversion, or of getConversion itself.  The locals of           *)
(* getBestConversion are the variables throws, totalAFaces and best;       *)
(* conversion is <<>> or <<the round built last>>.                         *)
(***************************************************************************)
VARIABLES pc, caller, dieA, dieB, makeFair, throws, totalAFaces, best, conversion

vars == <<pc, caller, dieA, dieB, makeFair, throws, totalAFaces, best, conversion>>

\* The calls the model explores
Explored(a, b, fair) ==
    /\ a \in 0..MaxA
    /\ b \in 0..MaxB
    /\ fair \in BOOLEAN
    /\ fair => a + b <= MaxFairSize

Init ==
    /\ pc = "idle"
    /\ caller = "none"
    /\ dieA = <<>>
    /\ dieB = <<>>
    /\ makeFair = FALSE
    /\ throws = 0
    /\ totalAFaces = 0
    /\ best = <<>>
    /\ conversion = <<>>

\* update (index.js:22-28) calls getBestConversion(createDie(dieA),
\* createDie(dieB), makeFair), which sets its locals (lib.js:41-44, 51).
update(a, b, fair) ==
    /\ pc = "idle"
    /\ Explored(a, b, fair)
    /\ caller' = "update"
    /\ dieA' = createDie(a)
    /\ dieB' = createDie(b)
    /\ makeFair' = fair
    /\ throws' = 1
    /\ totalAFaces' = a
    /\ best' = <<>>
    /\ pc' = "minThrows"
    /\ UNCHANGED conversion

\* One iteration of while (totalAFaces < bFaces) (lib.js:45-48)
MinThrowsLoop ==
    /\ pc = "minThrows"
    /\ totalAFaces < Len(dieB)
    /\ throws < MaxThrows
    /\ totalAFaces' = totalAFaces * Len(dieA)
    /\ throws' = throws + 1
    /\ UNCHANGED <<pc, caller, dieA, dieB, makeFair, best, conversion>>

\* The exit of that loop (lib.js:45, 51)
MinThrowsExit ==
    /\ pc = "minThrows"
    /\ ~(totalAFaces < Len(dieB))
    /\ pc' = "search"
    /\ UNCHANGED <<caller, dieA, dieB, makeFair, throws, totalAFaces, best, conversion>>

\* Build the round of the current throws and keep the better (lib.js:53-56)
SearchTry ==
    /\ pc = "search"
    /\ WithinBounds(dieA, throws)
    /\ conversion' = <<getConversion(dieA, dieB, makeFair, throws)>>
    /\ best' = IF Improves(conversion'[1], best) THEN conversion' ELSE best
    /\ pc' = "check"
    /\ UNCHANGED <<caller, dieA, dieB, makeFair, throws, totalAFaces>>

\* break and return best (lib.js:59-61, 66)
SearchBreak ==
    /\ pc = "check"
    /\ SearchStops(throws, best)
    /\ pc' = "done"
    /\ UNCHANGED <<caller, dieA, dieB, makeFair, throws, totalAFaces, best, conversion>>

\* throws += 1 and loop (lib.js:59, 63)
SearchAgain ==
    /\ pc = "check"
    /\ ~SearchStops(throws, best)
    /\ throws' = throws + 1
    /\ pc' = "search"
    /\ UNCHANGED <<caller, dieA, dieB, makeFair, totalAFaces, best, conversion>>

\* A call of getConversion(createDie(a), createDie(b), fair, t) (lib.js:79)
callGetConversion(a, b, fair, t) ==
    /\ pc = "idle"
    /\ Explored(a, b, fair)
    /\ t \in 1..MaxThrows
    /\ WithinBounds(createDie(a), t)
    /\ caller' = "getConversion"
    /\ dieA' = createDie(a)
    /\ dieB' = createDie(b)
    /\ makeFair' = fair
    /\ throws' = t
    /\ conversion' = <<getConversion(dieA', dieB', fair, t)>>
    /\ pc' = "done"
    /\ UNCHANGED <<totalAFaces, best>>

Next ==
    \/ \E a \in 0..MaxA, b \in 0..MaxB, fair \in BOOLEAN : update(a, b, fair)
    \/ MinThrowsLoop
    \/ MinThrowsExit
    \/ SearchTry
    \/ SearchBreak
    \/ SearchAgain
    \/ \E a \in 0..MaxA, b \in 0..MaxB, fair \in BOOLEAN, t \in 1..MaxThrows :
           callGetConversion(a, b, fair, t)

Spec == Init /\ [][Next]_vars


(***************************************************************************)
(* What the properties below read off a rule.                              *)
(***************************************************************************)
\* The round built last
Round == conversion[1]

\* A round of getConversion has been built for dice of at least two faces
RoundBuilt == conversion # <<>> /\ Len(dieA) >= 2 /\ Len(dieB) >= 2

\* update has called getBestConversion for dice of at least two faces
ValidUpdate == caller = "update" /\ Len(dieA) >= 2 /\ Len(dieB) >= 2

\* Number of tosses of an entry of the Partition Map
Size(entry) == Len(entry.range.ids)

\* The entries of a rule of the given kind
EntriesOf(rule, kind) ==
    {e \in 1..Len(rule.conversions) : rule.conversions[e].sub.kind = kind}

RECURSIVE SumSizes(_, _)
SumSizes(rule, entries) ==
    IF entries = {} THEN 0
    ELSE LET e == CHOOSE x \in entries : TRUE
         IN  Size(rule.conversions[e]) + SumSizes(rule, entries \ {e})

\* Number of outcomes in the repeat branch of a rule
RepeatSize(rule) == SumSizes(rule, EntriesOf(rule, "repeat"))

\* Number of outcomes of one round of a rule
Outcomes(rule) == Pow(Len(rule.dieA), rule.throws)

\* The die an entry leads to
TargetOf(rule, entry) ==
    IF entry.sub.kind = "terminal" THEN <<entry.sub.face>>
    ELSE IF entry.sub.kind = "repeat" THEN rule.dieB
    ELSE entry.sub.rule.dieB

\* How often each face of the source die occurs in a toss
FaceCounts(rule, toss) ==
    [f \in 1..Len(rule.dieA) |->
        Cardinality({p \in 1..Len(toss) : toss[p] = rule.dieA[f]})]

\* The places <<entry, position>> of the tosses of a rule
Places(rule) ==
    UNION {{<<e, j>> : j \in 1..Size(rule.conversions[e])} :
              e \in 1..Len(rule.conversions)}

(***************************************************************************)
(* C1  Cover property: in the rule getConversion builds for dice of at     *)
(* least two faces, every toss id in 0 .. n^throws - 1 is in the ids of    *)
(* exactly one entry of the Partition Map, once, and no other id is.       *)
(***************************************************************************)
C1_Cover ==
    RoundBuilt =>
        \* the ids of the entries are exactly 0 .. n^throws - 1 ...
        /\ {Round.conversions[pl[1]].range.ids[pl[2]] : pl \in Places(Round)}
               = 0..(Outcomes(Round) - 1)
        \* ... and there are n^throws of them, so none occurs twice
        /\ SumSizes(Round, 1..Len(Round.conversions)) = Outcomes(Round)
        /\ \A e \in 1..Len(Round.conversions) :
               Len(Round.conversions[e].range.faces) = Size(Round.conversions[e])

\* A round with terminal, reduction and repeat entries, built with makeFair
C1_Witness ==
    /\ RoundBuilt
    /\ makeFair
    /\ throws >= 3
    /\ EntriesOf(Round, "terminal") # {}
    /\ EntriesOf(Round, "reduce") # {}
    /\ EntriesOf(Round, "repeat") # {}

(***************************************************************************)
(* C2  Fairness of the allocation: in a round built with makeFair, for     *)
(* every multiset of face labels and every divisor d of the target size m, *)
(* the d sub-dice of m / d faces each receive the same number of tosses of *)
(* that multiset (d = m: the terminal faces; 1 < d < m: the reduction      *)
(* sub-dice).                                                              *)
(***************************************************************************)
\* Number of tosses of the multiset counts that the round sends to subDie
Received(rule, subDie, counts) ==
    Cardinality({pl \in Places(rule) :
        /\ TargetOf(rule, rule.conversions[pl[1]]) = subDie
        /\ FaceCounts(rule, rule.conversions[pl[1]].range.faces[pl[2]]) = counts})

\* The multisets of face labels of the tosses of a rule
Multisets(rule) ==
    {FaceCounts(rule, rule.conversions[pl[1]].range.faces[pl[2]]) :
        pl \in Places(rule)}

C2_FairAllocation ==
    (RoundBuilt /\ makeFair) =>
        \A counts \in Multisets(Round) :
            \A d \in {x \in 1..Len(dieB) : Len(dieB) % x = 0} :
                \A i \in 0..(d - 1) :
                    Received(Round, SubDie(dieB, Len(dieB) \div d, i), counts)
                        = Received(Round, SubDie(dieB, Len(dieB) \div d, 0), counts)

\* A fair round in which a terminal face and a reduction sub-die each
\* receive tosses, and the repeat branch too
C2_Witness ==
    /\ RoundBuilt
    /\ makeFair
    /\ Len(dieB) = 4
    /\ \E counts \in Multisets(Round) :
           /\ Received(Round, SubDie(dieB, 1, 3), counts) >= 1
           /\ Received(Round, SubDie(dieB, 2, 1), counts) >= 1
    /\ EntriesOf(Round, "repeat") # {}

(***************************************************************************)
(* C6  Divisor allocation with a remainder, for getConversion(die of 6,    *)
(* die of 4, makeFair = false, throws = 1).                                *)
(***************************************************************************)
SixToFour ==
    /\ caller = "getConversion"
    /\ pc = "done"
    /\ Len(dieA) = 6
    /\ Len(dieB) = 4
    /\ ~makeFair
    /\ throws = 1

\* The first block: one outcome to each of the 4 target faces, as terminal
\* entries, the outcomes with the ids 0 .. 3
FirstBlock ==
    /\ Cardinality(EntriesOf(Round, "terminal")) = 4
    /\ \A f \in 1..4 :
           /\ Round.conversions[f].sub = [kind |-> "terminal", face |-> dieB[f]]
           /\ Round.conversions[f].range.ids = <<f - 1>>

\* C6 as claimed: the 2 remaining outcomes form the repeat branch, a single
\* entry that points back to the same rule.
C6_RemainderRepeats ==
    SixToFour =>
        /\ FirstBlock
        /\ Len(Round.conversions) = 5
        /\ Round.conversions[5].sub.kind = "repeat"
        /\ Size(Round.conversions[5]) = 2

\* C6 as amended: the 2 remaining outcomes are allocated by the next
\* divisor, 2: one outcome to each of the two sub-dice of 2 faces, as
\* reduction entries; no outcome is left for a repeat branch, and the
\* expectation is 4/3.
C6_RemainderReduces ==
    SixToFour =>
        /\ FirstBlock
        /\ Len(Round.conversions) = 6
        /\ \A i \in 0..1 :
               /\ Round.conversions[5 + i].sub.kind = "reduce"
               /\ Round.conversions[5 + i].sub.rule.dieB = SubDie(dieB, 2, i)
               /\ Round.conversions[5 + i].range.ids = <<4 + i>>
        /\ EntriesOf(Round, "repeat") = {}
        /\ Round.expectation = Frac(4, 3)

C6_Witness == SixToFour /\ Len(Round.conversions) > 4

(***************************************************************************)
(* C9  Non-degenerate denominator, for every round getConversion builds    *)
(* for dice of at least two faces with n^throws >= m.                      *)
(***************************************************************************)
EnoughOutcomes == RoundBuilt /\ Outcomes(Round) >= Len(dieB)

\* C9 as claimed: sizeB < a in every such round, so the division by
\* a - sizeB is never a division by zero.
C9_RepeatBelowAll ==
    EnoughOutcomes =>
        /\ RepeatSize(Round) < Outcomes(Round)
        /\ IsFinite(Round.expectation)

\* C9 as amended: sizeB < a in every such round without makeFair, and in
\* the rule the search returns; with makeFair sizeB <= a, and where
\* sizeB = a the division is by zero and the expectation is Infinity.
C9_RepeatAtMostAll ==
    /\ EnoughOutcomes =>
           /\ RepeatSize(Round) <= Outcomes(Round)
           /\ ~makeFair => RepeatSize(Round) < Outcomes(Round)
           /\ RepeatSize(Round) < Outcomes(Round) <=> IsFinite(Round.expectation)
           /\ RepeatSize(Round) = Outcomes(Round) <=> Round.expectation = Infinity
    /\ (ValidUpdate /\ pc = "done") =>
           /\ RepeatSize(best[1]) < Outcomes(best[1])
           /\ IsFinite(best[1].expectation)

\* A round the search builds and discards, in which every outcome repeats
C9_Witness ==
    /\ ValidUpdate
    /\ pc = "check"
    /\ EnoughOutcomes
    /\ RepeatSize(Round) = Outcomes(Round)
    /\ RepeatSize(Round) > 0

(***************************************************************************)
(* C3  Search termination: a call of getBestConversion for dice of at      *)
(* least two faces returns; so does every search getConversion starts for  *)
(* a reduction branch; throws only grows by one from round to round, and   *)
(* the search returns at the first throws with                             *)
(* throws + 1 >= the best expectation found so far.                        *)
(* (Evaluating ENABLED of a step that builds a round is beyond TLC here,   *)
(* so termination is stated by a measure instead of with fairness.)        *)
(***************************************************************************)
\* throws + 1 >= the expectation of rule, on the fraction itself
StopsAt(t, rule) ==
    /\ rule.expectation.den > 0
    /\ (t + 1) * rule.expectation.den >= rule.expectation.num

\* Every search for a reduction branch of the rule has reached its break
RECURSIVE SubSearchesStop(_)
SubSearchesStop(rule) ==
    \A e \in EntriesOf(rule, "reduce") :
        /\ BestSearch(rule.dieA, rule.conversions[e].sub.rule.dieB, rule.makeFair).stopped
        /\ SubSearchesStop(rule.conversions[e].sub.rule)

\* The bounds of the model do not end the call: its next step can be taken
NotCut ==
    /\ (pc = "minThrows" /\ totalAFaces < Len(dieB)) => throws < MaxThrows
    /\ pc = "search" => WithinBounds(dieA, throws)
    /\ pc \in {"minThrows", "search", "check", "done"}

\* What every step of the call makes smaller: 0 only when it has returned
Rank ==
    IF pc = "minThrows" THEN 3
    ELSE IF pc = "search" THEN 2
    ELSE 1

Measure == IF pc = "done" THEN 0 ELSE 4 * (MaxThrows + 1 - throws) + Rank

\* Termination, on finite runs: the call is never cut short by a bound, so
\* it can step until it returns, and each of its steps lowers Measure >= 0.
C3_SearchTerminates ==
    /\ [](ValidUpdate => (NotCut /\ Measure >= 0 /\ (Measure = 0 <=> pc = "done")))
    /\ [][ValidUpdate => Measure' < Measure]_vars
    /\ []((ValidUpdate /\ conversion # <<>>) => SubSearchesStop(Round))
    /\ [][(ValidUpdate /\ pc = "check") =>
             /\ pc' = "done" <=> StopsAt(throws, best[1])
             /\ pc' # "done" => (pc' = "search" /\ throws' = throws + 1)]_vars

\* A search that returns after it has tried several values of throws, with
\* a rule that has a reduction branch
C3_Witness ==
    /\ ValidUpdate
    /\ pc = "done"
    /\ throws >= Round.throws
    /\ throws > best[1].throws
    /\ best[1].throws >= 3
    /\ EntriesOf(best[1], "reduce") # {}

(***************************************************************************)
(* C4  Evenly divisible conversion: without makeFair, for dice of n >= 2   *)
(* and m >= 2 faces with m dividing n, getBestConversion returns a rule    *)
(* with throws = 1 whose entries are all terminal, where every face of the *)
(* source die leads to one face of the target die and every face of the    *)
(* target die is reached from exactly n / m faces of the source die (for   *)
(* 6 to 2: "1", "2", "3" to "H" and "4", "5", "6" to "T"), and with         *)
(* expectation exactly 1.                                                  *)
(***************************************************************************)
DivisibleCall ==
    /\ ValidUpdate
    /\ ~makeFair
    /\ Len(dieA) % Len(dieB) = 0
    /\ pc = "done"

\* The faces of the target die a single face of the source die leads to
FacesFrom(rule, a) ==
    {rule.conversions[e].sub.face :
        e \in {t \in EntriesOf(rule, "terminal") :
                  \E j \in 1..Size(rule.conversions[t]) :
                      rule.conversions[t].range.faces[j] = <<a>>}}

OneFaceTarget == caller = "update" /\ Len(dieA) >= 2 /\ Len(dieB) = 1

C5_OneFaceTargetIsFree ==
    /\ OneFaceTarget =>
           /\ conversion = <<>>
           /\ throws = 1
           /\ pc \notin {"search", "check"}
           /\ pc = "done" => (best # <<>> /\ best[1].expectation = Num(0))
    /\ RoundBuilt => NumLess(Num(0), Round.expectation)

(***************************************************************************)
(* C7  Expectation lower bound: in the rule getBestConversion returns for  *)
(* dice of at least two faces, and in every rule reached from it through   *)
(* reduction entries, expectation >= throws, and expectation > throws when *)
(* the rule has a repeat or a reduction entry.                             *)
(***************************************************************************)
RECURSIVE RuleBound(_)
RuleBound(rule) ==
    /\ IsFinite(rule.expectation)
    /\ NumGeq(rule.expectation, Num(rule.throws))
    /\ (EntriesOf(rule, "repeat") \cup EntriesOf(rule, "reduce") # {})
           => NumLess(Num(rule.throws), rule.expectation)
    /\ \A e \in EntriesOf(rule, "reduce") : RuleBound(rule.conversions[e].sub.rule)

InvalidCall ==
    /\ caller = "update"
    /\ \/ Len(dieA) < 2 /\ Len(dieB) >= 2
       \/ Len(dieA) < 1
       \/ Len(dieB) < 1

C8_InvalidSizeRejected ==
    InvalidCall =>
        /\ throws = 1
        /\ conversion = <<>>
        /\ best = <<>>
        /\ pc \notin {"check", "done"}

(***************************************************************************)
(* C10  Search optimality and tie-break: the rule getBestConversion        *)
(* returns for dice of at least two faces has the lowest expectation among *)
(* the rounds getConversion builds for every throws from the least one     *)
(* with n^throws >= m up to the bounds of the model, which lie beyond the  *)
(* throws at which the search stops; among the throws that reach this      *)
(* expectation the returned rule has the smallest.                         *)
(***************************************************************************)
\* The least throws with n^throws >= m (lib.js:45-48)
LeastThrows ==
    MinThrowsFrom(Len(dieA), Len(dieB),
                  [throws |-> 1, totalAFaces |-> Len(dieA)]).throws

Candidates == {t \in LeastThrows..MaxThrows : WithinBounds(dieA, t)}

C10_SearchIsOptimal ==
    (ValidUpdate /\ pc = "done") =>
        /\ best[1].throws \in Candidates
        /\ best[1] = getConversion(dieA, dieB, makeFair, best[1].throws)
        /\ \A t \in Candidates :
               LET other == getConversion(dieA, dieB, makeFair, t).expectation
               IN  /\ ~NumLess(other, best[1].expectation)
                   /\ other = best[1].expectation => best[1].throws <= t

\* A search that did not keep its first round, and stops before the bounds
C10_Witness ==
    /\ ValidUpdate
    /\ pc = "done"
    /\ best[1].throws > LeastThrows
    /\ \E t \in Candidates : t > throws

=============================================================================
